---------------------------- MODULE Spec2Model ----------------------------
(***************************************************************************)
(* A model of spotdl/download/ffmpeg.py: the synchronous version check     *)
(* has_correct_version and the asynchronous transcoding driver convert.    *)
(* Text is modelled as sequences of one-character strings, so that the     *)
(* regular expressions, the letter stripping and the float parse are       *)
(* computed character by character as Python computes them.  A character   *)
(* outside ASCII is written by its code point, "U+00E9".                   *)
(***************************************************************************)
EXTENDS Integers, Sequences, FiniteSets, TLC

(***************************************************************************)
(* Bounds of the model.                                                    *)
(***************************************************************************)
\* longest major component of a generated version banner, in digits
MaxMajorDigits == 1
\* longest minor component of a generated version banner, in digits
MaxMinorDigits == 2
\* most bytes a subprocess writes to one of its output streams
MaxOutput == 1

(***************************************************************************)
(* Characters.                                                             *)
(***************************************************************************)
DigitChars == <<"0", "1", "2", "3", "4", "5", "6", "7", "8", "9">>

\* \d of the re module, on the characters the model generates
IsDigit(c) == \E i \in 1..Len(DigitChars) : DigitChars[i] = c

DigitValue(c) == (CHOOSE i \in 1..Len(DigitChars) : DigitChars[i] = c) - 1

\* the character class [a-zA-Z]
AsciiLetters ==
    {"a", "b", "c", "d", "e", "f", "g", "h", "i", "j", "k", "l", "m",
     "n", "o", "p", "q", "r", "s", "t", "u", "v", "w", "x", "y", "z",
     "A", "B", "C", "D", "E", "F", "G", "H", "I", "J", "K", "L", "M",
     "N", "O", "P", "Q", "R", "S", "T", "U", "V", "W", "X", "Y", "Z"}

IsAsciiLetter(c) == c \in AsciiLetters

\* letters outside ASCII: word characters for a str pattern, not in [a-zA-Z]
NonAsciiLetters == {"U+00E9"}

\* \w of the re module on str: letters of any script, digits and underscore
IsWord(c) == IsAsciiLetter(c) \/ IsDigit(c) \/ c = "_" \/ c \in NonAsciiLetters

IsSpace(c) == c \in {" ", "\n"}

(***************************************************************************)
(* Sequence helpers.                                                       *)
(***************************************************************************)
\* lit occurs in s starting at position p
LiteralAt(s, p, lit) ==
    /\ p >= 1
    /\ p + Len(lit) - 1 <= Len(s)
    /\ \A i \in 1..Len(lit) : s[p + i - 1] = lit[i]

RECURSIVE DigitRun(_, _)
\* the length of the longest run of digits of s that starts at position p
DigitRun(s, p) ==
    IF p <= Len(s) /\ IsDigit(s[p]) THEN 1 + DigitRun(s, p + 1) ELSE 0

\* str.endswith
EndsWith(s, suffix) ==
    /\ Len(suffix) <= Len(s)
    /\ SubSeq(s, Len(s) - Len(suffix) + 1, Len(s)) = suffix

(***************************************************************************)
(* re.search(r"ffmpeg version \w?(\d+\.)?(\d+)", output)                   *)
(***************************************************************************)
VersionPhrase ==
    <<"f", "f", "m", "p", "e", "g", " ", "v", "e", "r", "s", "i", "o", "n", " ">>

\* (\d+\.)?(\d+) at position p: the position after the match, 0 for no match.
\* The greedy optional group is tried first and given up when (\d+) cannot
\* follow it.
VersionNumberEnd(s, p) ==
    LET d1 == DigitRun(s, p)
        q  == p + d1
        d2 == IF q <= Len(s) /\ s[q] = "." THEN DigitRun(s, q + 1) ELSE 0
    IN  IF d1 > 0 /\ d2 > 0 THEN q + 1 + d2
        ELSE IF d1 > 0 THEN q
        ELSE 0

\* \w?(\d+\.)?(\d+) at position p: the greedy \w? takes a word character
\* first and gives it back when the rest cannot match after it.
VersionTailEnd(s, p) ==
    LET taken == IF p <= Len(s) /\ IsWord(s[p])
                 THEN VersionNumberEnd(s, p + 1) ELSE 0
    IN  IF taken > 0 THEN taken ELSE VersionNumberEnd(s, p)

\* the whole pattern at position i: the position after the match, 0 for none
VersionMatchEnd(s, i) ==
    IF LiteralAt(s, i, VersionPhrase)
    THEN VersionTailEnd(s, i + Len(VersionPhrase))
    ELSE 0

\* the match object: None, or group(0) of the leftmost match
NoMatch == [found |-> FALSE, text |-> <<>>]

SearchVersion(s) ==
    LET starts == {i \in 1..Len(s) : VersionMatchEnd(s, i) > 0}
    IN  IF starts = {} THEN NoMatch
        ELSE LET i == CHOOSE j \in starts : \A k \in starts : j <= k
             IN  [found |-> TRUE, text |-> SubSeq(s, i, VersionMatchEnd(s, i) - 1)]

(***************************************************************************)
(* re.search(r"Copyright \(c\) \d\d\d\d\-202\d", output)                   *)
(***************************************************************************)
CopyrightPhrase ==
    <<"C", "o", "p", "y", "r", "i", "g", "h", "t", " ", "(", "c", ")", " ">>

CopyrightDecade == <<"-", "2", "0", "2">>

\* the pattern without its "-202": any four digits, any character, any digit
MutCopyrightAtAnyDecade(s, i) ==
    LET y == i + Len(CopyrightPhrase)
    IN  /\ LiteralAt(s, i, CopyrightPhrase)
        /\ y + 8 <= Len(s)
        /\ \A k \in 0..3 : IsDigit(s[y + k])
        /\ s[y + 4] = "-"
        /\ \A k \in 5..8 : IsDigit(s[y + k])

CopyrightAt(s, i) ==
    LET y == i + Len(CopyrightPhrase)
    IN  /\ LiteralAt(s, i, CopyrightPhrase)
        /\ y + 8 <= Len(s)
        /\ \A k \in 0..3 : IsDigit(s[y + k])
        /\ LiteralAt(s, y + 4, CopyrightDecade)
        /\ IsDigit(s[y + 8])

SearchCopyright(s) == \E i \in 1..Len(s) : CopyrightAt(s, i)

(***************************************************************************)
(* re.sub(r"[a-zA-Z]", "", version_str) and float(version_str)             *)
(***************************************************************************)
KeepNonLetter(c) == ~IsAsciiLetter(c)

StripLetters(s) == SelectSeq(s, KeepNonLetter)

RECURSIVE TrimLeft(_)
TrimLeft(s) ==
    IF s # <<>> /\ IsSpace(Head(s)) THEN TrimLeft(Tail(s)) ELSE s

RECURSIVE TrimRight(_)
TrimRight(s) ==
    IF s # <<>> /\ IsSpace(s[Len(s)])
    THEN TrimRight(SubSeq(s, 1, Len(s) - 1)) ELSE s

KeepDigit(c) == IsDigit(c)

RECURSIVE DigitsValue(_)
\* the number a sequence of digits denotes (0 for the empty sequence)
DigitsValue(ds) ==
    IF ds = <<>> THEN 0
    ELSE 10 * DigitsValue(SubSeq(ds, 1, Len(ds) - 1)) + DigitValue(ds[Len(ds)])

RECURSIVE Pow10(_)
Pow10(k) == IF k = 0 THEN 1 ELSE 10 * Pow10(k - 1)

\* float(): surrounding whitespace is ignored; what is left must be a decimal
\* literal (digits, at most one point, at least one digit, an underscore only
\* between two digits).  No letter is left, so no exponent, inf or nan.  The
\* value is kept exact: num / 10^scale.
ParseError == [ok |-> FALSE, num |-> 0, scale |-> 0]

Float(s) ==
    LET t      == TrimRight(TrimLeft(s))
        dots   == {i \in 1..Len(t) : t[i] = "."}
        wellformed ==
            /\ t # <<>>
            /\ \A i \in 1..Len(t) : IsDigit(t[i]) \/ t[i] = "." \/ t[i] = "_"
            /\ Cardinality(dots) <= 1
            /\ \E i \in 1..Len(t) : IsDigit(t[i])
            /\ \A i \in 1..Len(t) :
                   t[i] = "_" =>
                       /\ i > 1 /\ i < Len(t)
                       /\ IsDigit(t[i - 1]) /\ IsDigit(t[i + 1])
        dot    == IF dots = {} THEN Len(t) + 1 ELSE CHOOSE i \in dots : TRUE
        whole  == SelectSeq(SubSeq(t, 1, dot - 1), KeepDigit)
        frac   == SelectSeq(SubSeq(t, dot + 1, Len(t)), KeepDigit)
    IN  IF ~wellformed THEN ParseError
        ELSE [ok    |-> TRUE,
              num   |-> DigitsValue(whole) * Pow10(Len(frac)) + DigitsValue(frac),
              scale |-> Len(frac)]

\* version <= 4.2 in the place of version < 4.2
MutTooOld(v) == 10 * v.num <= 42 * Pow10(v.scale)

\* line 37: version < 4.2, on the exact value
TooOld(v) == 10 * v.num < 42 * Pow10(v.scale)


(***************************************************************************)
(* State.                                                                  *)
(***************************************************************************)
VARIABLES
    onPath,     \* environment: the bare name "ffmpeg" resolves on the search path
    procs,      \* the subprocesses spawned so far, in spawn order (pid = index)
    hcvPc,      \* has_correct_version: position in the call
    hcvSkip,    \* has_correct_version: skip_version_check
    hcvPath,    \* has_correct_version: ffmpeg_path
    hcvProcess, \* has_correct_version: the local process (a pid, 0 before Popen)
    hcvBanner,  \* environment: what the tool's build prints for -version
    hcvOutput,  \* has_correct_version: the local output
    hcvResult,  \* has_correct_version: what the call returned or raised
    request,    \* convert: the arguments of each call (NoRequest: never called)
    pc,         \* convert: where each call stands
    ffmpegPath, \* convert: the local ffmpeg_path of each call, once defaulted
    arguments,  \* convert: the local arguments of each call
    process,    \* convert: the local process of each call (a pid, 0 before it)
    out,        \* convert: the local out of each call (the bytes it joins)
    returned,   \* convert: what each call returned or raised
    yields      \* convert: how often each call has given up control at an await

hcvVars == <<hcvPc, hcvSkip, hcvPath, hcvProcess, hcvBanner, hcvOutput, hcvResult>>

cvVars == <<request, pc, ffmpegPath, arguments, process, out, returned, yields>>

vars == <<onPath, procs, hcvVars, cvVars>>

(***************************************************************************)
(* Results of a call.                                                      *)
(***************************************************************************)
Pending == [kind |-> "pending", value |-> ""]

Returned(b) == [kind |-> "return", value |-> IF b THEN "True" ELSE "False"]

Raised(e) == [kind |-> "raise", value |-> e]

(***************************************************************************)
(* The environment: tool locations and what spawning them does.            *)
(***************************************************************************)
\* an opaque string, as a text of one piece
Str(x) == <<x>>

DefaultTool == Str("ffmpeg")

GoodTool == Str("/opt/ffmpeg")

\* a path at which there is no file
MissingTool == Str("/no/ffmpeg")

\* a path to a file that may not be executed
DeniedTool == Str("/ro/ffmpeg")

ToolLocations == {DefaultTool, GoodTool, MissingTool, DeniedTool}

\* what execve of the tool raises in the caller ("" when the process starts)
SpawnError(tool, resolves) ==
    IF tool = MissingTool \/ (tool = DefaultTool /\ ~resolves) THEN "FileNotFoundError"
    ELSE IF tool = DeniedTool THEN "PermissionError"
    ELSE ""

\* a process as the operating system holds it
NewProcess(argv) ==
    [argv |-> argv, state |-> "running", returncode |-> 0,
     stdout |-> 0, stderr |-> 0, stdoutEOF |-> FALSE, stderrEOF |-> FALSE]

(***************************************************************************)
(* The version banners the tool may print.                                 *)
(***************************************************************************)
VersionDigits == {"1", "2", "4"}

\* the digit strings of lengths lo..hi over VersionDigits
DigitStrings(lo, hi) ==
    UNION {[1..n -> VersionDigits] : n \in lo..hi}

\* the character right after "ffmpeg version ": none, a letter, an underscore,
\* a letter outside ASCII, a digit
Leads == {<<>>, <<"n">>, <<"_">>, <<"U+00E9">>, <<"7">>}

ThirdComponent == <<".", "1">>

BuildSuffix == <<"-", "g">>

\* an earlier line that holds the phrase and no number
Preambles == {<<>>, VersionPhrase \o <<"-", "\n">>}

CopyrightLines ==
    {<<>>,
     CopyrightPhrase \o <<"2", "0", "0", "0", "-", "2", "0", "2", "1">>,
     CopyrightPhrase \o <<"2", "0", "0", "0", "-", "2", "0", "1", "9">>}

NoVersion == [phrase |-> FALSE, lead |-> <<>>, major |-> <<>>, minor |-> <<>>, more |-> <<>>]

VersionLines ==
    {NoVersion} \cup
    {[phrase |-> TRUE, lead |-> l, major |-> ma, minor |-> mi, more |-> mo] :
        l \in Leads, ma \in DigitStrings(1, MaxMajorDigits),
        mi \in DigitStrings(1, MaxMinorDigits), mo \in {<<>>, ThirdComponent}} \cup
    {[phrase |-> TRUE, lead |-> l, major |-> ma, minor |-> <<>>, more |-> mo] :
        l \in Leads, ma \in DigitStrings(0, MaxMajorDigits), mo \in {<<>>, BuildSuffix}}

Banners ==
    {[pre |-> p, version |-> v, copyright |-> c] :
        p \in Preambles, v \in VersionLines, c \in CopyrightLines}

RenderVersion(v) ==
    IF ~v.phrase THEN <<>>
    ELSE VersionPhrase \o v.lead \o v.major
         \o (IF v.minor = <<>> THEN <<>> ELSE <<".">> \o v.minor) \o v.more

\* the text the tool writes: stdout and stderr joined
Render(b) == b.pre \o RenderVersion(b.version) \o <<"\n">> \o b.copyright

NoBanner == [pre |-> <<>>, version |-> NoVersion, copyright |-> <<>>]

(***************************************************************************)
(* has_correct_version                                                     *)
(***************************************************************************)
\* lines 27-53: the verdict on the tool's output
VersionVerdict(output) ==
    LET result == SearchVersion(output)
    IN  IF result.found
        THEN LET version == Float(StripLetters(result.text))
             IN  IF ~version.ok THEN Raised("ValueError")
                 ELSE IF TooOld(version) THEN Returned(FALSE)
                 ELSE Returned(TRUE)
        ELSE IF SearchCopyright(output) THEN Returned(TRUE)
        ELSE Returned(FALSE)

\* the flag is never read
MutCheckResultIgnoringSkip(skip_version_check, output) == VersionVerdict(output)

\* lines 24-53
CheckResult(skip_version_check, output) ==
    IF skip_version_check THEN Returned(TRUE) ELSE VersionVerdict(output)

\* lines 10-19: subprocess.Popen([ffmpeg_path, "-version"], ...)
HcvPopen ==
    /\ hcvPc = "popen"
    /\ LET err == SpawnError(hcvPath, onPath)
       IN  IF err = ""
           THEN /\ procs' = Append(procs, NewProcess(<<hcvPath, Str("-version")>>))
                /\ hcvProcess' = Len(procs) + 1
                /\ hcvPc' = "communicate"
                /\ hcvResult' = hcvResult
           ELSE IF err = "FileNotFoundError"
           THEN /\ hcvPc' = "done"
                /\ hcvResult' = Returned(FALSE)
                /\ UNCHANGED <<procs, hcvProcess>>
           ELSE /\ hcvPc' = "done"
                /\ hcvResult' = Raised(err)
                /\ UNCHANGED <<procs, hcvProcess>>
    /\ UNCHANGED <<onPath, hcvSkip, hcvPath, hcvBanner, hcvOutput, cvVars>>

\* line 21: output = "".join(process.communicate()); the call blocks until
\* the tool has printed its banner and exited
HcvCommunicate ==
    /\ hcvPc = "communicate"
    /\ \E b \in Banners :
          /\ hcvBanner' = b
          /\ hcvOutput' = Render(b)
    /\ procs' = [procs EXCEPT ![hcvProcess] =
                    [@ EXCEPT !.state = "exited", !.stdoutEOF = TRUE, !.stderrEOF = TRUE]]
    /\ hcvPc' = "check"
    /\ UNCHANGED <<onPath, hcvSkip, hcvPath, hcvProcess, hcvResult, cvVars>>

\* lines 24-53
HcvCheck ==
    /\ hcvPc = "check"
    /\ hcvResult' = CheckResult(hcvSkip, hcvOutput)
    /\ hcvPc' = "done"
    /\ UNCHANGED <<onPath, procs, hcvSkip, hcvPath, hcvProcess, hcvBanner, hcvOutput, cvVars>>

(***************************************************************************)
(* convert: paths and the format policy                                    *)
(***************************************************************************)
Tasks == {"t1", "t2"}

\* the value None of an optional argument
NoFormat == "<None>"

NoTool == <<>>

NoRequest == [source |-> <<>>, dest |-> <<>>, tool |-> NoTool, format |-> NoFormat]

\* the working directory of the host process
Cwd == <<"/", "w">>

\* str(path.absolute()): a relative path is joined to the working directory
Absolute(path) ==
    IF path # <<>> /\ Head(path) = "/" THEN path ELSE Cwd \o <<"/">> \o path

OpusSuffix == <<".", "o", "p", "u", "s">>

\* lines 71-73: the opus entry of formats
OpusCommand(downloaded_file_path) ==
    IF EndsWith(downloaded_file_path, OpusSuffix)
    THEN <<Str("-vn"), Str("-c:a"), Str("copy")>>
    ELSE <<Str("-c:a"), Str("libopus")>>

FormatNames == {"mp3", "flac", "ogg", "opus", "m4a", "wav"}

\* lines 67-76: the dict formats
Formats(downloaded_file_path) ==
    [f \in FormatNames |->
        CASE f = "mp3"  -> <<Str("-codec:a"), Str("libmp3lame")>>
          [] f = "flac" -> <<Str("-codec:a"), Str("flac")>>
          [] f = "ogg"  -> <<Str("-codec:a"), Str("libvorbis")>>
          [] f = "opus" -> OpusCommand(downloaded_file_path)
          [] f = "m4a"  -> <<Str("-codec:a"), Str("aac"), Str("-vn")>>
          [] f = "wav"  -> <<>>]

\* a lookup formats[key]: the entry, or KeyError
Found(v) == [ok |-> TRUE, value |-> v]

KeyError == [ok |-> FALSE, value |-> <<>>]

\* dict.get(key, formats["mp3"]) in the place of formats[key]
MutFormatCommandWithDefault(formats, output_format) ==
    IF output_format \in DOMAIN formats
    THEN Found(formats[output_format])
    ELSE Found(formats["mp3"])

\* lines 78-81
FormatCommand(formats, output_format) ==
    IF output_format = NoFormat THEN Found(formats["mp3"])
    ELSE IF output_format \in DOMAIN formats THEN Found(formats[output_format])
    ELSE KeyError

MutQualityCommandAlwaysZero(output_format) ==
    IF output_format = "m4a" THEN <<>> ELSE <<Str("-q:a"), Str("0")>>

\* lines 100-105
QualityCommand(output_format) ==
    IF output_format = "ogg" THEN <<Str("-q:a"), Str("5")>>
    ELSE IF output_format = "m4a" THEN <<>>
    ELSE <<Str("-q:a"), Str("0")>>

\* lines 107-108
ToolOrDefault(ffmpeg_path) ==
    IF ffmpeg_path = NoTool THEN DefaultTool ELSE ffmpeg_path

\* lines 110-120
Arguments(downloaded_file_path, format_command, quality_command, converted_file_path) ==
    <<Str("-i"), downloaded_file_path>>
    \o format_command
    \o <<Str("-abr"), Str("true")>>
    \o quality_command
    \o <<Str("-v"), Str("debug"), converted_file_path>>

(***************************************************************************)
(* The subprocesses, as the environment runs them.                         *)
(***************************************************************************)
ExitCodes == {0, 17}

Streams == {"stdout", "stderr"}

Running(p) == p \in 1..Len(procs) /\ procs[p].state = "running"

\* the tool writes a byte to one of its pipes; the event loop reads it into
\* the stream's buffer while the tool runs
ProcWrite(p, stream) ==
    /\ Running(p)
    /\ procs[p][stream] < MaxOutput
    /\ procs' = [procs EXCEPT ![p][stream] = @ + 1]
    /\ UNCHANGED <<onPath, hcvVars, cvVars>>

\* the tool exits
ProcExit(p, code) ==
    /\ Running(p)
    /\ procs' = [procs EXCEPT ![p].state = "exited", ![p].returncode = code]
    /\ UNCHANGED <<onPath, hcvVars, cvVars>>

\* the reader of one pipe of an exited tool reaches the end of the stream
PipeEOF(p, stream) ==
    /\ p \in 1..Len(procs)
    /\ procs[p].state = "exited"
    /\ LET flag == IF stream = "stdout" THEN "stdoutEOF" ELSE "stderrEOF"
       IN  /\ ~procs[p][flag]
           /\ procs' = [procs EXCEPT ![p][flag] = TRUE]
    /\ UNCHANGED <<onPath, hcvVars, cvVars>>

(***************************************************************************)
(* convert                                                                 *)
(***************************************************************************)
\* lines 64-122: up to the await of create_subprocess_exec
ConvertStart(t) ==
    /\ pc[t] = "call"
    /\ LET downloaded_file_path == Absolute(request[t].source)
           converted_file_path  == Absolute(request[t].dest)
           formats == Formats(downloaded_file_path)
           output_format_command == FormatCommand(formats, request[t].format)
       IN  IF ~output_format_command.ok
           THEN /\ pc' = [pc EXCEPT ![t] = "done"]
                /\ returned' = [returned EXCEPT ![t] = Raised("KeyError")]
                /\ UNCHANGED <<ffmpegPath, arguments, yields>>
           ELSE /\ ffmpegPath' = [ffmpegPath EXCEPT ![t] = ToolOrDefault(request[t].tool)]
                /\ arguments' = [arguments EXCEPT ![t] =
                       Arguments(downloaded_file_path, output_format_command.value,
                                 QualityCommand(request[t].format), converted_file_path)]
                /\ pc' = [pc EXCEPT ![t] = "create"]
                /\ yields' = [yields EXCEPT ![t] = @ + 1]
                /\ UNCHANGED returned
    /\ UNCHANGED <<onPath, procs, hcvVars, request, process, out>>

\* lines 122-129: create_subprocess_exec completes or raises; on completion
\* the call goes on to the await of process.communicate()
ConvertSpawn(t) ==
    /\ pc[t] = "create"
    /\ LET err == SpawnError(ffmpegPath[t], onPath)
       IN  IF err # ""
           THEN /\ pc' = [pc EXCEPT ![t] = "done"]
                /\ returned' = [returned EXCEPT ![t] = Raised(err)]
                /\ UNCHANGED <<procs, process, yields>>
           ELSE /\ procs' = Append(procs, NewProcess(<<ffmpegPath[t]>> \o arguments[t]))
                /\ process' = [process EXCEPT ![t] = Len(procs) + 1]
                /\ pc' = [pc EXCEPT ![t] = "communicate"]
                /\ yields' = [yields EXCEPT ![t] = @ + 1]
                /\ UNCHANGED returned
    /\ UNCHANGED <<onPath, hcvVars, request, ffmpegPath, arguments, out>>

\* process.wait() in the place of process.communicate()
MutCommunicateDoneOnExit(p) == procs[p].state = "exited"

\* line 129: communicate() completes once both streams have been read to
\* their end and the process has been waited for
CommunicateDone(p) ==
    /\ procs[p].state = "exited"
    /\ procs[p].stdoutEOF
    /\ procs[p].stderrEOF

\* a handle shared by the calls (the process spawned last) in the place of
\* the local one
MutProcessOfLastSpawned(t) == Len(procs)

\* the local variable process of call t
ProcessOf(t) == process[t]

\* lines 131-134
JoinedOutput(proc_out) ==
    IF proc_out[1] # 0 \/ proc_out[2] # 0 THEN proc_out[1] + proc_out[2] ELSE 0

MutOutcomeFromOutput(returncode, output) ==
    Returned(returncode = 0 /\ output = 0)

\* lines 136-149
Outcome(returncode, output) ==
    IF returncode # 0 THEN Returned(FALSE) ELSE Returned(TRUE)

\* lines 129-149: communicate() resumes the call, which then returns
ConvertFinish(t) ==
    /\ pc[t] = "communicate"
    /\ LET p == ProcessOf(t)
           proc_out == <<procs[p].stdout, procs[p].stderr>>
       IN  /\ CommunicateDone(p)
           /\ out' = [out EXCEPT ![t] = JoinedOutput(proc_out)]
           /\ returned' = [returned EXCEPT ![t] =
                            Outcome(procs[p].returncode, JoinedOutput(proc_out))]
    /\ pc' = [pc EXCEPT ![t] = "done"]
    /\ UNCHANGED <<onPath, procs, hcvVars, request, ffmpegPath, arguments, process, yields>>

(***************************************************************************)
(* The calls the caller may make.                                          *)
(***************************************************************************)
SourcePaths ==
    {<<"a", ".", "o", "p", "u", "s">>,
     <<"/", "b", ".", "o", "p", "u", "s">>,
     <<"c", ".", "m", "p", "3">>,
     <<"d", "o", "p", "u", "s">>}

DestPaths == {<<"o">>, <<"/", "o">>}

FormatArguments == FormatNames \cup {NoFormat, "aac", "MP3"}

ToolArguments == ToolLocations \cup {NoTool}

Requests ==
    {[source |-> s, dest |-> d, tool |-> tl, format |-> f] :
        s \in SourcePaths, d \in DestPaths, tl \in ToolArguments, f \in FormatArguments}

\* the calls of a batch: two files at a time
BatchRequests ==
    {r \in Requests :
        /\ r.tool = GoodTool
        /\ r.format \in {NoFormat, "opus"}
        /\ r.source \in {<<"a", ".", "o", "p", "u", "s">>, <<"c", ".", "m", "p", "3">>}}

CvInitLocals ==
    /\ ffmpegPath = [t \in Tasks |-> NoTool]
    /\ arguments = [t \in Tasks |-> <<>>]
    /\ process = [t \in Tasks |-> 0]
    /\ out = [t \in Tasks |-> 0]
    /\ returned = [t \in Tasks |-> Pending]
    /\ yields = [t \in Tasks |-> 0]

HcvIdle ==
    /\ hcvPc = "idle"
    /\ hcvSkip = FALSE
    /\ hcvPath = DefaultTool
    /\ hcvProcess = 0
    /\ hcvBanner = NoBanner
    /\ hcvOutput = <<>>
    /\ hcvResult = Pending

\* one call of convert
Init ==
    /\ onPath \in BOOLEAN
    /\ procs = <<>>
    /\ HcvIdle
    /\ \E r \in Requests :
          request = [t \in Tasks |-> IF t = "t1" THEN r ELSE NoRequest]
    /\ pc = [t \in Tasks |-> IF t = "t1" THEN "call" ELSE "idle"]
    /\ CvInitLocals

\* two calls of convert, on distinct (source, destination) pairs, as tasks
\* of one event loop
BatchInit ==
    /\ onPath = TRUE
    /\ procs = <<>>
    /\ HcvIdle
    /\ request \in [Tasks -> BatchRequests]
    /\ \A t, u \in Tasks :
          t # u => <<request[t].source, request[t].dest>>
                     # <<request[u].source, request[u].dest>>
    /\ pc = [t \in Tasks |-> "call"]
    /\ CvInitLocals

\* one call of has_correct_version
HcvInit ==
    /\ onPath \in BOOLEAN
    /\ procs = <<>>
    /\ hcvPc = "popen"
    /\ hcvSkip \in BOOLEAN
    /\ hcvPath \in ToolLocations
    /\ hcvProcess = 0
    /\ hcvBanner = NoBanner
    /\ hcvOutput = <<>>
    /\ hcvResult = Pending
    /\ request = [t \in Tasks |-> NoRequest]
    /\ pc = [t \in Tasks |-> "idle"]
    /\ CvInitLocals

CvNext ==
    \/ \E t \in Tasks : ConvertStart(t)
    \/ \E t \in Tasks : ConvertSpawn(t)
    \/ \E t \in Tasks : ConvertFinish(t)
    \/ \E p \in 1..Len(procs), stream \in Streams : ProcWrite(p, stream)
    \/ \E p \in 1..Len(procs), code \in ExitCodes : ProcExit(p, code)
    \/ \E p \in 1..Len(procs), stream \in Streams : PipeEOF(p, stream)

HcvNext == HcvPopen \/ HcvCommunicate \/ HcvCheck

Spec == Init /\ [][CvNext]_vars

SpecBatch == BatchInit /\ [][CvNext]_vars

SpecVersion == HcvInit /\ [][HcvNext]_vars


(***************************************************************************)
(* Properties of has_correct_version, under SpecVersion.                   *)
(***************************************************************************)
HcvDone == hcvPc = "done"

\* the tool could be started
HcvSpawned == SpawnError(hcvPath, onPath) = ""

\* the digits of the number that follows the phrase in the banner the tool
\* printed: a leading digit belongs to it, a leading letter does not
BannerWhole ==
    LET v == hcvBanner.version
    IN  (IF v.lead # <<>> /\ IsDigit(v.lead[1]) THEN v.lead ELSE <<>>) \o v.major

BannerHasNumber == hcvBanner.version.phrase /\ BannerWhole # <<>>

\* nothing, one ASCII letter or a digit stands before the number
BannerPlainLead ==
    LET l == hcvBanner.version.lead
    IN  l = <<>> \/ IsAsciiLetter(l[1]) \/ IsDigit(l[1])

\* X.Y >= 4.2 read off the banner: X > 4, or X = 4 and Y begins with 2..9
BannerAtLeast42 ==
    LET x == DigitsValue(BannerWhole)
        y == hcvBanner.version.minor
    IN  x > 4 \/ (x = 4 /\ y # <<>> /\ DigitValue(y[1]) >= 2)

GoodCopyrightLine ==
    CopyrightPhrase \o <<"2", "0", "0", "0", "-", "2", "0", "2", "1">>

\* C1 as stated: with skip_version_check = true the call returns True for
\* every tool state and output, and no subprocess is spawned during it.
C1_SkipNeverSpawns ==
    hcvSkip =>
        /\ Len(procs) = 0
        /\ HcvDone => hcvResult = Returned(TRUE)

\* C1 as amended: with skip_version_check = true the tool is still spawned
\* (as <path> -version) before the flag is read; the call returns True for
\* every output of a tool that started, False when the tool is not found,
\* and raises any other spawn failure.
C1_SkipAfterSpawn ==
    (hcvSkip /\ HcvDone) =>
        LET err == SpawnError(hcvPath, onPath)
        IN  /\ err = "" =>
                /\ hcvResult = Returned(TRUE)
                /\ Len(procs) = 1
                /\ procs[1].argv = <<hcvPath, Str("-version")>>
            /\ err = "FileNotFoundError" =>
                /\ hcvResult = Returned(FALSE)
                /\ Len(procs) = 0
            /\ err \notin {"", "FileNotFoundError"} =>
                /\ hcvResult = Raised(err)
                /\ Len(procs) = 0

\* a skipped check of a tool that started and printed a banner too old to pass
C1_Witness ==
    /\ hcvSkip /\ HcvDone /\ Len(procs) = 1
    /\ hcvResult = Returned(TRUE)
    /\ BannerHasNumber /\ BannerPlainLead /\ ~BannerAtLeast42
    /\ hcvBanner.copyright = <<>>

\* C2: without skip, an output whose banner carries a number X.Y after the
\* phrase (behind nothing, one ASCII letter, or led by a digit) is compatible
\* if and only if X.Y >= 4.2, whatever copyright line the output holds.
C2_VersionDecides ==
    (HcvDone /\ ~hcvSkip /\ HcvSpawned /\ BannerHasNumber /\ BannerPlainLead) =>
        hcvResult = Returned(BannerAtLeast42)

\* version 4.1x behind a letter, in an output that also holds a matching
\* copyright line and an earlier numberless phrase: rejected
C2_Witness ==
    /\ HcvDone /\ ~hcvSkip /\ HcvSpawned
    /\ hcvBanner.version.lead = <<"n">>
    /\ hcvBanner.version.major = <<"4">>
    /\ hcvBanner.version.minor = <<"1", "4">>
    /\ hcvBanner.copyright = GoodCopyrightLine
    /\ hcvBanner.pre # <<>>
    /\ hcvResult = Returned(FALSE)

\* C3: without skip, an output whose banner carries no number after the
\* phrase is compatible if and only if it holds a copyright range
\* "Copyright (c) YYYY-202X"; with neither it is incompatible.
C3_CopyrightFallback ==
    (HcvDone /\ ~hcvSkip /\ HcvSpawned /\ ~BannerHasNumber) =>
        hcvResult = Returned(hcvBanner.copyright = GoodCopyrightLine)

\* a banner with the phrase and a build tag but no number, accepted on its
\* copyright line
C3_Witness ==
    /\ HcvDone /\ ~hcvSkip /\ HcvSpawned
    /\ hcvBanner.version.phrase /\ ~BannerHasNumber
    /\ hcvBanner.version.more = BuildSuffix
    /\ hcvBanner.copyright = GoodCopyrightLine
    /\ hcvResult = Returned(TRUE)

\* C10: whenever the version pattern matches, the numeric parse of the
\* matched text succeeds: the call returns a boolean and raises nothing.
C10_ParseNeverFails ==
    (HcvDone /\ ~hcvSkip /\ HcvSpawned /\ SearchVersion(hcvOutput).found) =>
        hcvResult.kind = "return"

(***************************************************************************)
(* Properties of convert, under Spec (one call) and SpecBatch (two).       *)
(***************************************************************************)
Called(t) == pc[t] # "idle"

Done(t) == pc[t] = "done"

Recognized(f) == f \in {"mp3", "flac", "ogg", "opus", "m4a", "wav"}

\* abs is path made absolute: it is path when path is absolute, and else an
\* absolute path that ends in path
IsAbsoluteOf(abs, path) ==
    /\ abs # <<>> /\ Head(abs) = "/"
    /\ EndsWith(abs, path)
    /\ Head(path) = "/" => abs = path

\* the codec arguments the format policy gives a request
ExpectedCodec(r) ==
    LET f == IF r.format = NoFormat THEN "mp3" ELSE r.format
    IN  CASE f = "mp3"  -> <<Str("-codec:a"), Str("libmp3lame")>>
          [] f = "flac" -> <<Str("-codec:a"), Str("flac")>>
          [] f = "ogg"  -> <<Str("-codec:a"), Str("libvorbis")>>
          [] f = "m4a"  -> <<Str("-codec:a"), Str("aac"), Str("-vn")>>
          [] f = "wav"  -> <<>>
          [] f = "opus" /\ EndsWith(r.source, <<".", "o", "p", "u", "s">>) ->
                 <<Str("-vn"), Str("-c:a"), Str("copy")>>
          [] f = "opus" /\ ~EndsWith(r.source, <<".", "o", "p", "u", "s">>) ->
                 <<Str("-c:a"), Str("libopus")>>

\* the quality arguments the format policy gives a request
ExpectedQuality(r) ==
    CASE r.format = "ogg" -> <<Str("-q:a"), Str("5")>>
      [] r.format = "m4a" -> <<>>
      [] OTHER            -> <<Str("-q:a"), Str("0")>>

\* argv is <tool> -i <absolute source> <codec args> -abr true <quality args>
\* -v debug <absolute destination> for request r
IsExpectedCommand(argv, r) ==
    LET codec   == ExpectedCodec(r)
        quality == ExpectedQuality(r)
        n       == Len(codec)
        m       == Len(quality)
    IN  /\ Len(argv) = 8 + n + m
        /\ argv[1] = (IF r.tool = NoTool THEN Str("ffmpeg") ELSE r.tool)
        /\ argv[2] = Str("-i")
        /\ IsAbsoluteOf(argv[3], r.source)
        /\ SubSeq(argv, 4, 3 + n) = codec
        /\ argv[4 + n] = Str("-abr")
        /\ argv[5 + n] = Str("true")
        /\ SubSeq(argv, 6 + n, 5 + n + m) = quality
        /\ argv[6 + n + m] = Str("-v")
        /\ argv[7 + n + m] = Str("debug")
        /\ IsAbsoluteOf(argv[8 + n + m], r.dest)

\* C4: a call whose format is set and is not one of the six recognized ones
\* fails with a lookup error, no subprocess is spawned at any point of it,
\* and no command (of the mp3 profile or any other) is ever built.
C4_UnknownFormatFailsFast ==
    \A t \in Tasks :
        (Called(t) /\ request[t].format # NoFormat /\ ~Recognized(request[t].format)) =>
            /\ Len(procs) = 0
            /\ process[t] = 0
            /\ arguments[t] = <<>>
            /\ pc[t] \in {"call", "done"}
            /\ Done(t) => returned[t] = Raised("KeyError")

\* the format "MP3", and a tool that would have started
C4_Witness ==
    /\ Done("t1")
    /\ request["t1"].format = "MP3"
    /\ SpawnError(ToolOrDefault(request["t1"].tool), onPath) = ""
    /\ returned["t1"] = Raised("KeyError")

\* C5: whenever the tool cannot be spawned, has_correct_version and convert
\* both return False and let no exception escape.
C5_SpawnFailureReturnsFalse ==
    /\ (hcvPc = "done" /\ SpawnError(hcvPath, onPath) # "") =>
           hcvResult = Returned(FALSE)
    /\ \A t \in Tasks :
           (Done(t) /\ (request[t].format = NoFormat \/ Recognized(request[t].format))
                    /\ SpawnError(ToolOrDefault(request[t].tool), onPath) # "") =>
               returned[t] = Returned(FALSE)

\* C6: once its subprocess has exited, a call returns success if and only
\* if the exit code is 0, whatever was captured; a failure is returned, not
\* raised, and no second subprocess is spawned for it.
C6_ExitCodeDecides ==
    \A t \in Tasks :
        (Done(t) /\ process[t] # 0) =>
            /\ procs[process[t]].state = "exited"
            /\ returned[t] = Returned(procs[process[t]].returncode = 0)
            /\ Len(procs) = 1

\* exit code 0 with bytes on both streams: success
C6_Witness ==
    /\ Done("t1") /\ process["t1"] = 1
    /\ procs[1].returncode = 0
    /\ procs[1].stdout > 0 /\ procs[1].stderr > 0
    /\ out["t1"] > 0
    /\ returned["t1"] = Returned(TRUE)

\* C7: of two calls on distinct (source, destination) pairs, in every
\* interleaving, each spawns its own subprocess, on its own source and
\* destination, and returns what it returns when run alone: success if and
\* only if its own subprocess exited with code 0.
C7_CallsDoNotInterfere ==
    /\ \A t \in Tasks :
           process[t] # 0 =>
               LET p == procs[process[t]]
               IN  /\ IsExpectedCommand(p.argv, request[t])
                   /\ Done(t) =>
                          /\ p.state = "exited"
                          /\ returned[t] = Returned(p.returncode = 0)
    /\ \A t, u \in Tasks : (t # u /\ process[t] # 0) => process[t] # process[u]
    /\ Len(procs) = Cardinality({t \in Tasks : process[t] # 0})

\* both calls are done, the one spawned second failed and the other did not
C7_Witness ==
    /\ Done("t1") /\ Done("t2")
    /\ process["t1"] = 2 /\ process["t2"] = 1
    /\ procs[1].returncode = 0 /\ procs[2].returncode = 17
    /\ returned["t1"] = Returned(FALSE)
    /\ returned["t2"] = Returned(TRUE)

\* C8: for every recognized or unset format and every source path, the
\* command launched is <tool> -i <absolute source> <codec args> -abr true
\* <quality args> -v debug <absolute destination>, with the codec and quality
\* arguments of the format's profile and "ffmpeg" for an unset tool.
C8_CommandLine ==
    \A t \in Tasks :
        process[t] # 0 => IsExpectedCommand(procs[process[t]].argv, request[t])

\* opus from a relative source that ends in ".opus", with no tool given
C8_Witness ==
    /\ process["t1"] = 1
    /\ request["t1"].format = "opus"
    /\ request["t1"].source = <<"a", ".", "o", "p", "u", "s">>
    /\ request["t1"].tool = NoTool
    /\ procs[1].argv[1] = Str("ffmpeg")
    /\ procs[1].argv[4] = Str("-vn")

\* C9 as stated: a call gives up control at exactly one point.
C9_OneSuspensionPoint ==
    \A t \in Tasks :
        (Done(t) /\ returned[t].kind = "return") => yields[t] = 1

\* C9 as amended: a call that returns has given up control at two points,
\* the wait for the subprocess to be created and the wait for its
\* completion; it resumes from the second only once the subprocess has
\* exited and both streams have been read to their end, and decides on the
\* exit code only then.
C9_TwoSuspensionPoints ==
    [][\A t \in Tasks :
          (pc[t] = "communicate" /\ pc'[t] = "done") =>
              /\ procs[process[t]].state = "exited"
              /\ procs[process[t]].stdoutEOF
              /\ procs[process[t]].stderrEOF
              /\ yields'[t] = 2
              /\ returned'[t] = Returned(procs[process[t]].returncode = 0)]_vars

\* a call that returned after its subprocess wrote to both streams
C9_Witness ==
    /\ Done("t1") /\ returned["t1"].kind = "return"
    /\ yields["t1"] = 2
    /\ procs[process["t1"]].stdout > 0 /\ procs[process["t1"]].stderr > 0

=============================================================================
